---- MODULE Spec2Model ----
(***************************************************************************)
(* Model of dashify (scottidler/dashify).                                  *)
(*                                                                         *)
(*   src/src/lib.rs   the engine: dashify, should_leave_alone and its      *)
(*                    predicate helpers, split_name_and_extension,         *)
(*                    process_name and its three rewrite stages            *)
(*   src/src/main.rs  the command-line tool: main, rename_file,            *)
(*                    rename_files_in_dir                                  *)
(*                                                                         *)
(* A filename is a sequence of characters; a character is a one-character  *)
(* string, except the non-ASCII representatives, which are written by      *)
(* their code point ("U+00E9" is e-acute, "U+00DC" is U-umlaut) and are    *)
(* two bytes long in UTF-8. Rust's str::len and slice ranges count bytes:  *)
(* ByteLen keeps that where the code uses len().                           *)
(***************************************************************************)
EXTENDS Integers, Sequences, FiniteSets, TLC

\* ------------------------------------------------------------ characters

LowerSeq == << "a","b","c","d","e","f","g","h","i","j","k","l","m",
               "n","o","p","q","r","s","t","u","v","w","x","y","z" >>

UpperSeq == << "A","B","C","D","E","F","G","H","I","J","K","L","M",
               "N","O","P","Q","R","S","T","U","V","W","X","Y","Z" >>

\* char::is_ascii_lowercase
is_ascii_lowercase == { LowerSeq[i] : i \in DOMAIN LowerSeq }

\* char::is_ascii_uppercase
is_ascii_uppercase == { UpperSeq[i] : i \in DOMAIN UpperSeq }

\* char::is_ascii_digit
is_ascii_digit == { "0","1","2","3","4","5","6","7","8","9" }

\* char::is_ascii_alphabetic
is_ascii_alphabetic == is_ascii_lowercase \cup is_ascii_uppercase

\* char::is_ascii_alphanumeric
is_ascii_alphanumeric == is_ascii_alphabetic \cup is_ascii_digit

\* The characters outside ASCII that the model knows.
NonAscii == { "U+00E9", "U+00DC", "U+00FC" }

\* str::is_ascii
is_ascii(s) == \A i \in DOMAIN s : s[i] \notin NonAscii

\* str::len, in bytes
RECURSIVE ByteLen(_)
ByteLen(s) ==
    IF s = << >> THEN 0
    ELSE (IF Head(s) \in NonAscii THEN 2 ELSE 1) + ByteLen(Tail(s))

\* char::to_lowercase as str::to_lowercase applies it to each character
LowerMap ==
    [ c \in is_ascii_uppercase |->
        LowerSeq[CHOOSE i \in DOMAIN UpperSeq : UpperSeq[i] = c] ]

to_lowercase_char(c) ==
    IF c \in is_ascii_uppercase THEN LowerMap[c]
    ELSE IF c = "U+00DC" THEN "U+00FC"
    ELSE c

\* str::to_lowercase
to_lowercase(s) == [ i \in DOMAIN s |-> to_lowercase_char(s[i]) ]

\* --------------------------------------------------------------- strings

\* str::starts_with
starts_with(s, p) == Len(p) <= Len(s) /\ SubSeq(s, 1, Len(p)) = p

\* str::ends_with
ends_with(s, p) ==
    Len(p) <= Len(s) /\ SubSeq(s, Len(s) - Len(p) + 1, Len(s)) = p

\* str::contains with a string pattern
contains(s, p) ==
    \E i \in 1..(Len(s) - Len(p) + 1) : SubSeq(s, i, i + Len(p) - 1) = p

\* str::contains with a character pattern
contains_char(s, c) == \E i \in DOMAIN s : s[i] = c

\* str::find / str::rfind of '.', as a 0-based position; -1 stands for None
find_dot(s) ==
    IF contains_char(s, ".")
    THEN (CHOOSE i \in DOMAIN s : s[i] = "." /\ \A j \in 1..(i-1) : s[j] # ".") - 1
    ELSE -1

rfind_dot(s) ==
    IF contains_char(s, ".")
    THEN (CHOOSE i \in DOMAIN s : s[i] = "." /\ \A j \in (i+1)..Len(s) : s[j] # ".") - 1
    ELSE -1

\* &s[from..] with a 0-based start
slice_from(s, from) == SubSeq(s, from + 1, Len(s))

\* &s[..to] with a 0-based exclusive end
slice_to(s, to) == SubSeq(s, 1, to)

\* filename.split('.').next().unwrap_or(filename): the part before the first dot
first_segment(s) == IF find_dot(s) = -1 THEN s ELSE slice_to(s, find_dot(s))

\* s.rsplit_once('.').map(|(n, _)| n).unwrap_or(s): the part before the last dot
before_last_dot(s) == IF rfind_dot(s) = -1 THEN s ELSE slice_to(s, rfind_dot(s))

\* s.chars().filter(|&c| c != '.').collect()
RECURSIVE non_dot_part(_)
non_dot_part(s) ==
    IF s = << >> THEN << >>
    ELSE IF Head(s) = "." THEN non_dot_part(Tail(s))
    ELSE << Head(s) >> \o non_dot_part(Tail(s))

\* ------------------------------------------------------ predicate helpers

\* is_clean_name, lib.rs 122-128
is_clean_name(name) ==
    \/ name = << >>
    \/ \A i \in DOMAIN name :
          \/ name[i] \in is_ascii_lowercase
          \/ name[i] \in is_ascii_digit
          \/ name[i] \in { "-", "_", "." }

\* has_camel_case, lib.rs 190-198
has_camel_case(name) ==
    \E i \in 2..Len(name) :
        name[i] \in is_ascii_uppercase /\ name[i-1] \in is_ascii_lowercase

\* has_letter_number_transition, lib.rs 201-214
has_letter_number_transition(name) ==
    \E i \in 2..Len(name) :
        \/ name[i-1] \in is_ascii_alphabetic /\ name[i] \in is_ascii_digit
        \/ name[i-1] \in is_ascii_digit /\ name[i] \in is_ascii_alphabetic

\* The guard without its length test
dunder_guard_without_length(name) ==
    starts_with(name, << "_", "_" >>) /\ ends_with(name, << "_", "_" >>)

\* The guard of is_dunder_pattern, lib.rs 107; len() counts bytes.
dunder_guard(name) ==
    starts_with(name, << "_", "_" >>) /\ ends_with(name, << "_", "_" >>)
        /\ ByteLen(name) > 4

\* Whether the range of &name[2..name.len() - 2], lib.rs 108, is in order;
\* a range whose start exceeds its end panics.
dunder_slice_ok(name) == 2 <= ByteLen(name) - 2

\* is_dunder_pattern, lib.rs 105-119
is_dunder_pattern(filename) ==
    LET name  == first_segment(filename)
        inner == SubSeq(name, 3, Len(name) - 2)
    IN  /\ dunder_guard(name)
        /\ inner # << >>
        /\ ~starts_with(inner, << "_" >>)
        /\ ~ends_with(inner, << "_" >>)
        /\ \A i \in DOMAIN inner :
              inner[i] \in is_ascii_alphanumeric \/ inner[i] = "_"

\* bad_chars of is_already_clean, lib.rs 153-155
bad_chars ==
    { " ", "+", ",", "(", ")", "[", "]", "{", "}", "'", "\"", "@", "#",
      "$", "%", "&", "!" }

\* The consecutive-dots test of is_already_clean, lib.rs 148
has_bad_double_dots(filename) ==
    contains(filename, << ".", "." >>) /\ ~starts_with(filename, << ".", "." >>)

\* force_dash alone, whatever the filename holds
force_dash_alone(filename, force_dash) == force_dash

\* The force_dash test of is_already_clean, lib.rs 138
force_dash_needs_processing(filename, force_dash) ==
    force_dash /\ contains_char(filename, "_")

\* is_already_clean, lib.rs 131-172
is_already_clean(filename, force_dash) ==
    /\ ~\E i \in DOMAIN filename : filename[i] \in is_ascii_uppercase
    /\ ~force_dash_needs_processing(filename, force_dash)
    /\ ~contains(filename, << "-", "-" >>)
    /\ ~contains(filename, << "_", "_", "_" >>)
    /\ ~has_bad_double_dots(filename)
    /\ ~\E i \in DOMAIN filename : filename[i] \in bad_chars
    /\ ~contains(filename, << "-", "_" >>)
    /\ ~contains(filename, << "_", "-" >>)
    /\ ~has_letter_number_transition(first_segment(filename))

\* is_all_caps_filename, lib.rs 175-181
is_all_caps_filename(filename) ==
    LET name == first_segment(filename)
    IN  /\ name # << >>
        /\ \A i \in DOMAIN name :
              name[i] \in is_ascii_uppercase \/ name[i] \in { "_", "-" }
        /\ \E i \in DOMAIN name : name[i] \in is_ascii_uppercase
        /\ ~contains_char(filename, " ")

\* s[lo..hi] (1-based, inclusive) is a non-empty run of characters of set cls
run_of(s, lo, hi, cls) == lo <= hi /\ \A i \in lo..hi : s[i] \in cls

\* is_semver_style, lib.rs 184-187: the whole filename matches
\*   ^v?\d+\.\d+(\.\d+)?(-[a-z0-9-]+)?\.[a-z]+$
\* a, b, c, d, e are the positions where v?, the first \d+, the second \d+,
\* the optional (\.\d+) and the optional (-[a-z0-9-]+) end.
is_semver_style(filename) ==
    LET n == Len(filename)
        suffix == is_ascii_lowercase \cup is_ascii_digit \cup { "-" }
    IN  \E a \in (IF n > 0 /\ filename[1] = "v" THEN {0, 1} ELSE {0}) :
        \E b \in (a+1)..n :
          /\ run_of(filename, a+1, b, is_ascii_digit)
          /\ \E c \in (b+2)..n :
              /\ filename[b+1] = "."
              /\ run_of(filename, b+2, c, is_ascii_digit)
              /\ \E d \in {c} \cup ((c+2)..n) :
                  /\ (d > c => filename[c+1] = "."
                                /\ run_of(filename, c+2, d, is_ascii_digit))
                  /\ \E e \in {d} \cup ((d+2)..n) :
                      /\ (e > d => filename[d+1] = "-"
                                    /\ run_of(filename, d+2, e, suffix))
                      /\ e + 2 <= n
                      /\ filename[e+1] = "."
                      /\ run_of(filename, e+2, n, is_ascii_lowercase)

\* ------------------------------------------------------------ classifier

\* Rule 1, lib.rs 35: leading or trailing space
has_outer_space(filename) ==
    starts_with(filename, << " " >>) \/ ends_with(filename, << " " >>)

\* Rule 3 left out: a classifier that does not look for non-ASCII characters
has_non_ascii_unchecked(filename) == FALSE

\* Rule 3, lib.rs 45: a character outside ASCII
has_non_ascii(filename) == ~is_ascii(filename)

\* Rule 4, lib.rs 50-57: hidden file whose rest is clean
is_clean_hidden_file(filename) ==
    /\ starts_with(filename, << "." >>)
    /\ ~contains_char(filename, " ")
    /\ is_clean_name(Tail(filename))
    /\ ~has_camel_case(first_segment(Tail(filename)))

\* Rule 5, lib.rs 60: extension-only file
is_extension_only(filename) ==
    /\ starts_with(filename, << "." >>)
    /\ ~contains_char(slice_from(filename, 1), ".")
    /\ is_clean_name(slice_from(filename, 1))

\* Rule 6, lib.rs 65-75: dots and lowercase letters only, starting with "..."
is_multiple_dots_only(filename) ==
    /\ \/ non_dot_part(filename) = << >>
       \/ /\ starts_with(filename, << "." >>)
          /\ \A i \in DOMAIN slice_from(filename, 1) :
                \/ slice_from(filename, 1)[i] = "."
                \/ slice_from(filename, 1)[i] \in is_ascii_lowercase
    /\ \A i \in DOMAIN non_dot_part(filename) :
          non_dot_part(filename)[i] \in is_ascii_lowercase
    /\ ~contains_char(filename, " ")
    /\ starts_with(filename, << ".", ".", "." >>)

\* Rule 10, lib.rs 93-99: compressed archive with a clean name
is_clean_tarball(filename) ==
    /\ \/ ends_with(filename, << ".", "t", "a", "r", ".", "g", "z" >>)
       \/ ends_with(filename, << ".", "t", "a", "r", ".", "b", "z", "2" >>)
       \/ ends_with(filename, << ".", "t", "a", "r", ".", "x", "z" >>)
    /\ is_clean_name(before_last_dot(before_last_dot(filename)))

\* The number of the first rule of should_leave_alone that returns true, in
\* the order of lib.rs 33-102; 0 when the function returns false.
exempt_rule(filename, force_dash) ==
    IF has_outer_space(filename) THEN 1
    ELSE IF is_dunder_pattern(filename) THEN 2
    ELSE IF has_non_ascii(filename) THEN 3
    ELSE IF is_clean_hidden_file(filename) THEN 4
    ELSE IF is_extension_only(filename) THEN 5
    ELSE IF is_multiple_dots_only(filename) THEN 6
    ELSE IF is_already_clean(filename, force_dash) THEN 7
    ELSE IF is_all_caps_filename(filename) THEN 8
    ELSE IF is_semver_style(filename) THEN 9
    ELSE IF is_clean_tarball(filename) THEN 10
    ELSE 0

\* should_leave_alone, lib.rs 33-102
should_leave_alone(filename, force_dash) == exempt_rule(filename, force_dash) # 0

\* should_leave_alone panics where a slice range is out of order or past the
\* end: &name[2..name.len() - 2] in is_dunder_pattern (lib.rs 108, reached
\* unless rule 1 returned) and &filename[1..] (lib.rs 60 and 66, reached
\* only behind starts_with('.')).
should_leave_alone_panics(filename) ==
    /\ ~has_outer_space(filename)
    /\ \/ /\ dunder_guard(first_segment(filename))
          /\ ~dunder_slice_ok(first_segment(filename))
       \/ /\ ~is_dunder_pattern(filename)
          /\ ~has_non_ascii(filename)
          /\ ~is_clean_hidden_file(filename)
          /\ starts_with(filename, << "." >>)
          /\ 1 > ByteLen(filename)

\* -------------------------------------------------------------- splitter

\* split_name_and_extension, lib.rs 218-240, as the pair <<name, extension>>
split_name_and_extension(filename) ==
    IF starts_with(filename, << "." >>)
    THEN LET rest    == Tail(filename)
             dot_pos == rfind_dot(rest)
         IN  IF dot_pos # -1
             THEN << << "." >> \o slice_to(rest, dot_pos),
                     slice_from(rest, dot_pos + 1) >>
             ELSE << filename, << >> >>
    ELSE LET dot_pos == rfind_dot(filename)
         IN  IF dot_pos # -1 /\ dot_pos > 0
             THEN << slice_to(filename, dot_pos),
                     slice_from(filename, dot_pos + 1) >>
             ELSE << filename, << >> >>

\* -------------------------------------------------------- rewrite stages

\* lowercase_count of split_camel_case, lib.rs 327-334: the length of the run
\* of lowercase characters that ends at chars[j] (1-based)
RECURSIVE lowercase_count(_, _)
lowercase_count(chars, j) ==
    IF j >= 1 /\ chars[j] \in is_ascii_lowercase
    THEN 1 + lowercase_count(chars, j - 1)
    ELSE 0

\* A threshold of one lowercase character
camel_split_needed_after_one(count) == count >= 1

\* The threshold of lib.rs 337
camel_split_needed(count) == count >= 2

\* The bound test of lib.rs 345 that guards chars[i + 1]; i is 1-based here
next_in_range(chars, i) == i + 1 <= Len(chars)

\* Whether split_camel_case pushes a dash before chars[i], lib.rs 322-350.
\* chars[i + 1] is read only where it exists; split_camel_case_panics says
\* when the code would read it where it does not.
camel_dash_before(chars, i) ==
    /\ i > 1
    /\ IF chars[i-1] \in is_ascii_lowercase /\ chars[i] \in is_ascii_uppercase
       THEN camel_split_needed(lowercase_count(chars, i - 1))
       ELSE /\ chars[i-1] \in is_ascii_uppercase
            /\ chars[i] \in is_ascii_uppercase
            /\ next_in_range(chars, i)
            /\ i + 1 <= Len(chars)
            /\ chars[i+1] \in is_ascii_lowercase

\* split_camel_case reads chars[i + 1] past the end, lib.rs 346
split_camel_case_panics(chars) ==
    \E i \in 2..Len(chars) :
        /\ ~(chars[i-1] \in is_ascii_lowercase /\ chars[i] \in is_ascii_uppercase)
        /\ chars[i-1] \in is_ascii_uppercase
        /\ chars[i] \in is_ascii_uppercase
        /\ next_in_range(chars, i)
        /\ i + 1 > Len(chars)

RECURSIVE split_camel_case_from(_, _)
split_camel_case_from(chars, i) ==
    IF i > Len(chars) THEN << >>
    ELSE (IF camel_dash_before(chars, i) THEN << "-" >> ELSE << >>)
            \o << chars[i] >> \o split_camel_case_from(chars, i + 1)

\* split_camel_case, lib.rs 304-364
split_camel_case(s) == split_camel_case_from(s, 1)

\* Only the letter-to-digit branch
number_dash_before_digit_only(chars, i) ==
    /\ i > 1
    /\ chars[i-1] \in is_ascii_alphabetic
    /\ chars[i] \in is_ascii_digit

\* Whether split_numbers pushes a dash before chars[i], lib.rs 378-393
number_dash_before(chars, i) ==
    /\ i > 1
    /\ IF chars[i-1] \in is_ascii_alphabetic /\ chars[i] \in is_ascii_digit
       THEN chars[i-1] # "-" /\ chars[i-1] # "_"
       ELSE chars[i-1] \in is_ascii_digit /\ chars[i] \in is_ascii_alphabetic

RECURSIVE split_numbers_from(_, _)
split_numbers_from(chars, i) ==
    IF i > Len(chars) THEN << >>
    ELSE (IF number_dash_before(chars, i) THEN << "-" >> ELSE << >>)
            \o << chars[i] >> \o split_numbers_from(chars, i + 1)

\* split_numbers, lib.rs 367-399
split_numbers(s) == split_numbers_from(s, 1)

\* str::replace(pattern, to) for a set of one-character patterns
RECURSIVE replace_chars(_, _, _)
replace_chars(s, pattern, to) ==
    IF s = << >> THEN << >>
    ELSE (IF Head(s) \in pattern THEN to ELSE << Head(s) >>)
            \o replace_chars(Tail(s), pattern, to)

\* Step 3 of process_name, lib.rs 259
remove_brackets(s) == replace_chars(s, { "[", "]", "{", "}" }, << >>)

\* dash_chars of process_name, lib.rs 262
dash_chars == { " ", "+", ",", "(", ")", "'", "\"", "@", "#", "$", "%", "&", "!" }

\* Step 4 of process_name, lib.rs 262-265
replace_dash_chars(s) == replace_chars(s, dash_chars, << "-" >>)

\* Step 4.5 left out
force_dashes_skipped(s, force_dash) == s

\* Step 4.5 of process_name, lib.rs 268-270
force_dashes(s, force_dash) ==
    IF force_dash THEN replace_chars(s, { "_" }, << "-" >>) ELSE s

\* The last position of the run of dashes and underscores that starts at i
RECURSIVE separator_run_end(_, _)
separator_run_end(s, i) ==
    IF i + 1 <= Len(s) /\ s[i+1] \in { "-", "_" }
    THEN separator_run_end(s, i + 1)
    ELSE i

\* The first character of the run, whatever follows it
run_replacement_of_first(s, i, j) == s[i]

\* What collapse_mixed_separators pushes for the run s[i..j], lib.rs 424-428
run_replacement(s, i, j) ==
    IF \E k \in i..j : s[k] = "-" THEN "-" ELSE "_"

RECURSIVE collapse_mixed_separators_from(_, _)
collapse_mixed_separators_from(s, i) ==
    IF i > Len(s) THEN << >>
    ELSE IF s[i] \in { "-", "_" }
         THEN << run_replacement(s, i, separator_run_end(s, i)) >>
                \o collapse_mixed_separators_from(s, separator_run_end(s, i) + 1)
         ELSE << s[i] >> \o collapse_mixed_separators_from(s, i + 1)

\* collapse_mixed_separators, lib.rs 402-435
collapse_mixed_separators(s) == collapse_mixed_separators_from(s, 1)

\* Regex c+ replaced by c (replace_all), lib.rs 277-278 and 282-283
RECURSIVE collapse_runs_from(_, _, _)
collapse_runs_from(s, c, i) ==
    IF i > Len(s) THEN << >>
    ELSE (IF s[i] = c /\ i > 1 /\ s[i-1] = c THEN << >> ELSE << s[i] >>)
            \o collapse_runs_from(s, c, i + 1)

collapse_runs(s, c) == collapse_runs_from(s, c, 1)

\* Step 6 of process_name, lib.rs 277-278
collapse_dashes(s) == collapse_runs(s, "-")

\* Step 7 of process_name, lib.rs 281-284
collapse_underscores(s, force_dash) ==
    IF ~force_dash THEN collapse_runs(s, "_") ELSE s

\* processed.replace("..", "."), lib.rs 288: one pass, left to right, over
\* non-overlapping matches
RECURSIVE replace_double_dots_from(_, _)
replace_double_dots_from(s, i) ==
    IF i > Len(s) THEN << >>
    ELSE IF s[i] = "." /\ i + 1 <= Len(s) /\ s[i+1] = "."
         THEN << "." >> \o replace_double_dots_from(s, i + 2)
         ELSE << s[i] >> \o replace_double_dots_from(s, i + 1)

replace_double_dots(s) == replace_double_dots_from(s, 1)

\* The loop test of lib.rs 287
has_double_dots(s) == contains(s, << ".", "." >>)

\* Step 8 of process_name, lib.rs 287-289, run to its end
RECURSIVE collapse_double_dots(_)
collapse_double_dots(s) ==
    IF has_double_dots(s) THEN collapse_double_dots(replace_double_dots(s)) ELSE s

\* str::trim_end_matches(c)
RECURSIVE trim_end_matches(_, _)
trim_end_matches(s, c) ==
    IF s # << >> /\ s[Len(s)] = c
    THEN trim_end_matches(SubSeq(s, 1, Len(s) - 1), c)
    ELSE s

\* prefix and working_name of process_name, lib.rs 245
name_prefix(name) == IF starts_with(name, << "." >>) THEN << "." >> ELSE << >>

working_name(name) == IF starts_with(name, << "." >>) THEN Tail(name) ELSE name

\* original_ends_with_separator, lib.rs 248
ends_with_separator(working) ==
    ends_with(working, << "-" >>) \/ ends_with(working, << "_" >>)

\* Steps 1 to 7 of process_name, lib.rs 250-284, on the working name
rewrite_stages(working, force_dash) ==
    collapse_underscores(
        collapse_dashes(
            collapse_mixed_separators(
                force_dashes(
                    replace_dash_chars(
                        remove_brackets(
                            split_numbers(
                                split_camel_case(working)))),
                    force_dash))),
        force_dash)

\* Trimming whatever the name ended in
trim_trailing_always(processed, original_ends_with_separator) ==
    trim_end_matches(trim_end_matches(processed, "-"), "_")

\* Step 9 of process_name, lib.rs 292-295
trim_trailing(processed, original_ends_with_separator) ==
    IF ~original_ends_with_separator
    THEN trim_end_matches(trim_end_matches(processed, "-"), "_")
    ELSE processed

\* Steps 9, 10 and the return of process_name, lib.rs 291-300
finish_name(prefix, processed, original_ends_with_separator) ==
    prefix \o to_lowercase(trim_trailing(processed, original_ends_with_separator))

\* process_name, lib.rs 243-301
process_name(name, force_dash) ==
    finish_name(
        name_prefix(name),
        collapse_double_dots(rewrite_stages(working_name(name), force_dash)),
        ends_with_separator(working_name(name)))

\* A rejoin that reattaches the extension as the splitter returned it
rejoin_without_lowercase(processed, ext) ==
    IF ext = << >> THEN processed
    ELSE processed \o << "." >> \o ext

\* The rejoin of dashify, lib.rs 25-29
rejoin(processed, ext) ==
    IF ext = << >> THEN processed
    ELSE processed \o << "." >> \o to_lowercase(ext)

\* dashify, lib.rs 12-30
dashify(filename, force_dash) ==
    IF should_leave_alone(filename, force_dash) THEN filename
    ELSE rejoin(
            process_name(split_name_and_extension(filename)[1], force_dash),
            split_name_and_extension(filename)[2])

\* ---------------------------------------------------------------- inputs

\* Every string over FullAlphabet up to MaxLen characters, every string over
\* CoreAlphabet up to MaxCoreLen characters, and the filenames of Samples
\* (taken from the tests of lib.rs and the rules of should_leave_alone) are
\* given to dashify, with force_dash false and true.
MaxLen == 3

MaxCoreLen == 5

FullAlphabet == { "a", "B", "1", "-", "_", ".", " ", "[", "+", "U+00E9" }

CoreAlphabet == { "a", "B", ".", "_" }

Strings(alphabet, n) == UNION { [1..k -> alphabet] : k \in 0..n }

Samples ==
    { << "f", "i", "l", "e", " ", "n", "a", "m", "e", ".", "t", "x", "t" >>,
      << "c", "a", "m", "e", "l", "C", "a", "s", "e", "F", "i", "l", "e", "N", "a", "m", "e", ".", "t", "x", "t" >>,
      << "X", "M", "L", "P", "a", "r", "s", "e", "r", ".", "j", "a", "v", "a" >>,
      << "i", "P", "h", "o", "n", "e", ".", "t", "x", "t" >>,
      << "i", "P", "a", "d", "H", "T", "T", "P", "a", "p", "i", ".", "j", "s" >>,
      << "F", "i", "l", "e", "2", "N", "a", "m", "e", ".", "t", "x", "t" >>,
      << "f", "i", "l", "e", "[", "n", "a", "m", "e", "]", ".", "t", "x", "t" >>,
      << "f", "i", "l", "e", ".", ".", "n", "a", "m", "e", ".", "t", "x", "t" >>,
      << "_", "_", "i", "n", "i", "t", "_", "_", ".", "p", "y" >>,
      << "R", "E", "A", "D", "M", "E", ".", "m", "d" >>,
      << "v", "2", ".", "0", ".", "1", "-", "r", "e", "l", "e", "a", "s", "e", ".", "t", "x", "t" >>,
      << "v", "1", ".", "1", ".", "a" >>,
      << "f", "i", "l", "e", ".", "t", "a", "r", ".", "g", "z" >>,
      << "a", "1", ".", "t", "a", "r", ".", "g", "z" >>,
      << "a", "_", "b", ".", "t", "a", "r", ".", "b", "z", "2" >>,
      << "a", "-", "-", "b", ".", "t", "a", "r", ".", "x", "z" >>,
      << "F", "i", "l", "e", ".", "t", "a", "r", ".", "g", "z" >>,
      << "m", "y", "_", "p", "r", "o", "j", "e", "c", "t", "_", "v", "2", ".", "m", "d" >>,
      << ".", ".", ".", "t", "x", "t" >>,
      << "C", "O", "D", "E", "_", "O", "F", "_", "C", "O", "N", "D", "U", "C", "T", ".", "m", "d" >> }

Filenames ==
    Strings(FullAlphabet, MaxLen) \cup Strings(CoreAlphabet, MaxCoreLen) \cup Samples

\* ----------------------------------------------------------------- state

VARIABLES
    filename,     \* the argument of the current call of dashify
    force_dash,   \* options.force_dash
    call,         \* 1: dashify(x); 2: dashify applied to the result of call 1;
                  \* 0 before the first call
    pc,           \* where the current call is
    rule,         \* the rule of should_leave_alone that returned true, 0 if none
    name,         \* name of lib.rs 19
    ext,          \* ext of lib.rs 19
    processed,    \* processed of process_name, then of dashify (lib.rs 22)
    loops,        \* iterations of the loop of lib.rs 287 done in this call
    result,       \* what the current call returned
    fs_files,     \* the paths that are regular files
    fs_dirs,      \* the paths that are directories
    args,         \* args.paths of main.rs
    recursive,    \* args.recursive of main.rs
    arg_i,        \* the index in args.paths of the path main is at
    stack,        \* the calls of rename_files_in_dir in progress, innermost
                  \* last: the directory and its entries not yet visited
    cli_pc,       \* where the command-line tool is
    renames       \* the fs::rename calls issued so far

engineVars ==
    << filename, force_dash, call, pc, rule, name, ext, processed, loops, result >>

cliVars == << fs_files, fs_dirs, args, recursive, arg_i, stack, cli_pc, renames >>

vars == << engineVars, cliVars >>

None == << >>

EngineIdle ==
    /\ filename = None
    /\ force_dash = FALSE
    /\ call = 0
    /\ pc = "idle"
    /\ rule = 0
    /\ name = None
    /\ ext = None
    /\ processed = None
    /\ loops = 0
    /\ result = None

\* The command-line tool is not running.
CliOff ==
    /\ fs_files = {}
    /\ fs_dirs = {}
    /\ args = << >>
    /\ recursive = FALSE
    /\ arg_i = 0
    /\ stack = << >>
    /\ cli_pc = "off"
    /\ renames = {}

Init == EngineIdle /\ CliOff

\* A caller calls dashify(x, options), lib.rs 12.
Call ==
    /\ pc = "idle"
    /\ filename' \in Filenames
    /\ force_dash' \in BOOLEAN
    /\ call' = 1
    /\ pc' = "call"
    /\ UNCHANGED << rule, name, ext, processed, loops, result >>
    /\ UNCHANGED cliVars

\* dashify, lib.rs 14-16: the classifier, and the early return
Classify ==
    /\ pc = "call"
    /\ IF should_leave_alone_panics(filename)
       THEN /\ pc' = "panicked"
            /\ UNCHANGED << rule, result >>
       ELSE IF should_leave_alone(filename, force_dash)
       THEN /\ rule' = exempt_rule(filename, force_dash)
            /\ result' = filename
            /\ pc' = "done"
       ELSE /\ rule' = 0
            /\ pc' = "split"
            /\ UNCHANGED result
    /\ UNCHANGED << filename, force_dash, call, name, ext, processed, loops >>
    /\ UNCHANGED cliVars

\* dashify, lib.rs 19: the splitter
Split ==
    /\ pc = "split"
    /\ name' = split_name_and_extension(filename)[1]
    /\ ext' = split_name_and_extension(filename)[2]
    /\ pc' = "process"
    /\ UNCHANGED << filename, force_dash, call, rule, processed, loops, result >>
    /\ UNCHANGED cliVars

\* process_name, lib.rs 245-253: prefix, working_name and Step 1
SplitCamelCase ==
    /\ pc = "process"
    /\ IF split_camel_case_panics(working_name(name))
       THEN /\ pc' = "panicked"
            /\ UNCHANGED processed
       ELSE /\ processed' = split_camel_case(working_name(name))
            /\ pc' = "numbers"
    /\ UNCHANGED << filename, force_dash, call, rule, name, ext, loops, result >>
    /\ UNCHANGED cliVars

\* process_name, lib.rs 256: Step 2
SplitNumbers ==
    /\ pc = "numbers"
    /\ processed' = split_numbers(processed)
    /\ pc' = "brackets"
    /\ UNCHANGED << filename, force_dash, call, rule, name, ext, loops, result >>
    /\ UNCHANGED cliVars

\* process_name, lib.rs 259: Step 3
RemoveBrackets ==
    /\ pc = "brackets"
    /\ processed' = remove_brackets(processed)
    /\ pc' = "punctuation"
    /\ UNCHANGED << filename, force_dash, call, rule, name, ext, loops, result >>
    /\ UNCHANGED cliVars

\* process_name, lib.rs 262-265: Step 4
ReplaceDashChars ==
    /\ pc = "punctuation"
    /\ processed' = replace_dash_chars(processed)
    /\ pc' = "force"
    /\ UNCHANGED << filename, force_dash, call, rule, name, ext, loops, result >>
    /\ UNCHANGED cliVars

\* process_name, lib.rs 268-270: Step 4.5
ForceDashes ==
    /\ pc = "force"
    /\ processed' = force_dashes(processed, force_dash)
    /\ pc' = "mixed"
    /\ UNCHANGED << filename, force_dash, call, rule, name, ext, loops, result >>
    /\ UNCHANGED cliVars

\* process_name, lib.rs 274: Step 5
CollapseMixedSeparators ==
    /\ pc = "mixed"
    /\ processed' = collapse_mixed_separators(processed)
    /\ pc' = "dashes"
    /\ UNCHANGED << filename, force_dash, call, rule, name, ext, loops, result >>
    /\ UNCHANGED cliVars

\* process_name, lib.rs 277-278: Step 6
CollapseDashes ==
    /\ pc = "dashes"
    /\ processed' = collapse_dashes(processed)
    /\ pc' = "underscores"
    /\ UNCHANGED << filename, force_dash, call, rule, name, ext, loops, result >>
    /\ UNCHANGED cliVars

\* process_name, lib.rs 281-284: Step 7
CollapseUnderscores ==
    /\ pc = "underscores"
    /\ processed' = collapse_underscores(processed, force_dash)
    /\ pc' = "dots"
    /\ UNCHANGED << filename, force_dash, call, rule, name, ext, loops, result >>
    /\ UNCHANGED cliVars

\* process_name, lib.rs 287-289: one iteration of the loop
CollapseDots ==
    /\ pc = "dots"
    /\ has_double_dots(processed)
    /\ processed' = replace_double_dots(processed)
    /\ loops' = loops + 1
    /\ UNCHANGED << filename, force_dash, call, pc, rule, name, ext, result >>
    /\ UNCHANGED cliVars

\* process_name, lib.rs 291-300, and the return of dashify, lib.rs 25-29
Return ==
    /\ pc = "dots"
    /\ ~has_double_dots(processed)
    /\ processed' = finish_name(name_prefix(name), processed,
                                ends_with_separator(working_name(name)))
    /\ result' = rejoin(processed', ext)
    /\ pc' = "done"
    /\ UNCHANGED << filename, force_dash, call, rule, name, ext, loops >>
    /\ UNCHANGED cliVars

\* The caller gives the result of the first call to dashify again.
Again ==
    /\ pc = "done"
    /\ call = 1
    /\ filename' = result
    /\ call' = 2
    /\ pc' = "call"
    /\ rule' = 0
    /\ name' = None
    /\ ext' = None
    /\ processed' = None
    /\ loops' = 0
    /\ result' = None
    /\ UNCHANGED force_dash
    /\ UNCHANGED cliVars

Next ==
    \/ Call
    \/ Classify
    \/ Split
    \/ SplitCamelCase
    \/ SplitNumbers
    \/ RemoveBrackets
    \/ ReplaceDashChars
    \/ ForceDashes
    \/ CollapseMixedSeparators
    \/ CollapseDashes
    \/ CollapseUnderscores
    \/ CollapseDots
    \/ Return
    \/ Again

Spec == Init /\ [][Next]_vars

\* A call that has begun is carried on: the engine is straight-line code.
FairSpec == Spec /\ WF_vars(Next)

\* ------------------------------------------------------ command-line tool

\* A path is a sequence of components; a component is a filename.
parent(path) == SubSeq(path, 1, Len(path) - 1)

\* Path::file_name
file_name(path) == path[Len(path)]

\* PathBuf::with_file_name; an empty new name leaves the parent directory
with_file_name(path, new_name) ==
    IF new_name = << >> THEN parent(path) ELSE parent(path) \o << new_name >>

\* dirs::home_dir() of expand_tilde, main.rs 39: the home directory
Home == << << "t", "o", "p" >> >>

\* expand_tilde, main.rs 38-45, for a path whose first component is "~"
expand_tilde(path) ==
    IF path # << >> /\ path[1] = << "~" >> THEN Home \o Tail(path) ELSE path

\* The characters the regex of main.rs 52, [,_ ]|\\(|\\), matches: a comma,
\* an underscore, a space, or a backslash (followed by the group "nothing or
\* a backslash", which matches nothing first).
cli_replaced == { ",", "_", " ", "\\" }

\* str::trim_start_matches(c)
RECURSIVE trim_start_matches(_, _)
trim_start_matches(s, c) ==
    IF s # << >> /\ Head(s) = c THEN trim_start_matches(Tail(s), c) ELSE s

\* str::trim_matches(c)
trim_matches(s, c) == trim_end_matches(trim_start_matches(s, c), c)

\* new_file_name of rename_file, main.rs 52-58
new_file_name(old_name) ==
    to_lowercase(
        trim_matches(
            collapse_runs(replace_chars(old_name, cli_replaced, << "-" >>), "-"),
            "-"))

\* Path::is_file
is_file(path, files) == path \in files

\* Path::is_dir
is_dir(path, dirs) == path \in dirs

\* The test without the recursive flag
recurses_into_any_directory(path, dirs, rec) == is_dir(path, dirs)

\* The test of main.rs 72, which sends rename_files_in_dir into a directory
recurses_into(path, dirs, rec) == rec /\ is_dir(path, dirs)

\* fs::read_dir: the entries of a directory
read_dir(dir, files, dirs) ==
    { p \in files \cup dirs : Len(p) = Len(dir) + 1 /\ parent(p) = dir }

\* Whether fs::rename(from, to) of a regular file succeeds: not onto a
\* directory, and not onto the empty path.
rename_ok(from, to, dirs) == to = from \/ (to # << >> /\ to \notin dirs)

\* The regular files after fs::rename(from, to) of a regular file: a file at
\* to is replaced.
files_after_rename(files, dirs, from, to) ==
    IF rename_ok(from, to, dirs) THEN (files \ { from }) \cup { to } ELSE files

\* The record of one fs::rename call, main.rs 61
rename_record(path, files, dirs) ==
    [ from |-> path,
      to   |-> with_file_name(path, new_file_name(file_name(path))),
      kind |-> IF path \in files THEN "file"
               ELSE IF path \in dirs THEN "dir" ELSE "none",
      ok   |-> rename_ok(path, with_file_name(path, new_file_name(file_name(path))), dirs) ]

\* The directories and files the tool is run on.
Top == << << "t", "o", "p" >> >>

Sub == Top \o << << "s", "-", "d" >> >>

SubSub == Sub \o << << "x", "_", "y" >> >>

Directories == { Top, Sub, SubSub }

FileCandidates ==
    { Top \o << << "a", "_", "b" >> >>,
      Top \o << << "a", "-", "b" >> >>,
      Top \o << << "s", "_", "d" >> >>,
      Top \o << << "_" >> >>,
      Sub \o << << "A", "b" >> >>,
      SubSub \o << << "a", "_", "b" >> >> }

ArgPaths ==
    { << << "~" >> >>, Sub, Top \o << << "a", "_", "b" >> >>,
      << << "n", "o", "p", "e" >> >> }

\* The number of PATH arguments given
MaxArgs == 2

InitCli ==
    /\ EngineIdle
    /\ fs_files \in SUBSET FileCandidates
    /\ fs_dirs = Directories
    /\ args \in UNION { [1..k -> ArgPaths] : k \in 1..MaxArgs }
    /\ recursive \in BOOLEAN
    /\ arg_i = 1
    /\ stack = << >>
    /\ cli_pc = "main"
    /\ renames = {}

\* rename_file, main.rs 47-64, called for path: the rename is issued whatever
\* the new name is; the primed file system and rename log
RenameFile(path) ==
    /\ renames' = renames \cup { rename_record(path, fs_files, fs_dirs) }
    /\ fs_files' = files_after_rename(fs_files, fs_dirs, path,
                        with_file_name(path, new_file_name(file_name(path))))
    /\ UNCHANGED fs_dirs

\* main, main.rs 24-27: the path is a file
MainFile ==
    /\ cli_pc = "main"
    /\ arg_i <= Len(args)
    /\ is_file(expand_tilde(args[arg_i]), fs_files)
    /\ RenameFile(expand_tilde(args[arg_i]))
    /\ IF rename_record(expand_tilde(args[arg_i]), fs_files, fs_dirs).ok
       THEN arg_i' = arg_i + 1 /\ cli_pc' = "main"
       ELSE arg_i' = arg_i /\ cli_pc' = "failed"
    /\ UNCHANGED << args, recursive, stack, engineVars >>

\* main, main.rs 28-29: the path is a directory; rename_files_in_dir begins,
\* main.rs 67
MainDir ==
    /\ cli_pc = "main"
    /\ arg_i <= Len(args)
    /\ ~is_file(expand_tilde(args[arg_i]), fs_files)
    /\ is_dir(expand_tilde(args[arg_i]), fs_dirs)
    /\ stack' = << [ dir     |-> expand_tilde(args[arg_i]),
                     pending |-> read_dir(expand_tilde(args[arg_i]), fs_files, fs_dirs) ] >>
    /\ cli_pc' = "dir"
    /\ UNCHANGED << fs_files, fs_dirs, args, recursive, arg_i, renames, engineVars >>

\* main, main.rs 30-33: neither; exit(1)
MainNotFound ==
    /\ cli_pc = "main"
    /\ arg_i <= Len(args)
    /\ ~is_file(expand_tilde(args[arg_i]), fs_files)
    /\ ~is_dir(expand_tilde(args[arg_i]), fs_dirs)
    /\ cli_pc' = "failed"
    /\ UNCHANGED << fs_files, fs_dirs, args, recursive, arg_i, stack, renames, engineVars >>

\* main, main.rs 35: every path is done
MainDone ==
    /\ cli_pc = "main"
    /\ arg_i > Len(args)
    /\ cli_pc' = "exited"
    /\ UNCHANGED << fs_files, fs_dirs, args, recursive, arg_i, stack, renames, engineVars >>

\* The stack with entry taken from the pending entries of its last call
without_entry(stk, entry) ==
    [ stk EXCEPT ![Len(stk)].pending = @ \ { entry } ]

\* rename_files_in_dir, main.rs 70-71: the entry is a file. The directory
\* stream may or may not return the renamed entry again under its new name.
DirEntryFile ==
    /\ cli_pc = "dir"
    /\ \E entry \in stack[Len(stack)].pending :
        /\ is_file(entry, fs_files)
        /\ RenameFile(entry)
        /\ IF rename_record(entry, fs_files, fs_dirs).ok
           THEN /\ cli_pc' = "dir"
                /\ \E again \in BOOLEAN :
                     stack' = [ without_entry(stack, entry) EXCEPT
                                  ![Len(stack)].pending =
                                     IF again
                                     THEN @ \cup { rename_record(entry, fs_files, fs_dirs).to }
                                     ELSE @ ]
           ELSE /\ cli_pc' = "failed"
                /\ stack' = without_entry(stack, entry)
    /\ UNCHANGED << args, recursive, arg_i, engineVars >>

\* rename_files_in_dir, main.rs 72-73: the entry is a directory and
\* recursive is set
DirEntryDir ==
    /\ cli_pc = "dir"
    /\ \E entry \in stack[Len(stack)].pending :
        /\ ~is_file(entry, fs_files)
        /\ recurses_into(entry, fs_dirs, recursive)
        /\ stack' = Append(without_entry(stack, entry),
                           [ dir     |-> entry,
                             pending |-> read_dir(entry, fs_files, fs_dirs) ])
    /\ UNCHANGED << fs_files, fs_dirs, args, recursive, arg_i, cli_pc, renames, engineVars >>

\* rename_files_in_dir, main.rs 70-74: the entry is neither
DirEntrySkipped ==
    /\ cli_pc = "dir"
    /\ \E entry \in stack[Len(stack)].pending :
        /\ ~is_file(entry, fs_files)
        /\ ~recurses_into(entry, fs_dirs, recursive)
        /\ stack' = without_entry(stack, entry)
    /\ UNCHANGED << fs_files, fs_dirs, args, recursive, arg_i, cli_pc, renames, engineVars >>

\* rename_files_in_dir, main.rs 76: the directory is done
DirReturn ==
    /\ cli_pc = "dir"
    /\ stack[Len(stack)].pending = {}
    /\ stack' = SubSeq(stack, 1, Len(stack) - 1)
    /\ IF Len(stack) = 1
       THEN arg_i' = arg_i + 1 /\ cli_pc' = "main"
       ELSE arg_i' = arg_i /\ cli_pc' = "dir"
    /\ UNCHANGED << fs_files, fs_dirs, args, recursive, renames, engineVars >>

NextCli ==
    \/ MainFile
    \/ MainDir
    \/ MainNotFound
    \/ MainDone
    \/ DirEntryFile
    \/ DirEntryDir
    \/ DirEntrySkipped
    \/ DirReturn

SpecCli == InitCli /\ [][NextCli]_vars

\* ---------------------------------------------------------------- claims

\* C1: dashify is idempotent: the second call, whose argument is the result
\* of the first, returns its argument.
Idempotent == (pc = "done" /\ call = 2) => result = filename

\* C2: a filename with a character outside ASCII anywhere, or with a leading
\* or trailing space, is returned exactly unchanged, whatever force_dash is
\* and whatever else the filename contains.
NonAsciiOrOuterSpaceUnchanged ==
    (pc = "done" /\ (\/ \E i \in DOMAIN filename : filename[i] \in NonAscii
                      \/ (filename # << >> /\ filename[1] = " ")
                      \/ (filename # << >> /\ filename[Len(filename)] = " ")))
        => result = filename

\* A call has returned a filename with a character outside ASCII and an
\* uppercase letter, with no leading or trailing space, as it was.
NonAsciiWithUppercaseReturned ==
    /\ pc = "done"
    /\ \E i \in DOMAIN filename : filename[i] \in NonAscii
    /\ filename[1] # " " /\ filename[Len(filename)] # " "
    /\ \E i \in DOMAIN filename : filename[i] \in is_ascii_uppercase
    /\ result = filename

\* The part of s after its last dot
after_last_dot(s) == slice_from(s, rfind_dot(s) + 1)

\* C3: when the classifier does not exempt the filename and the splitter
\* yields a non-empty extension, the part of the output after its last dot
\* is that extension lowercased, and has no uppercase letter.
ExtensionLowercased ==
    (pc = "done" /\ rule = 0 /\ ext # << >>)
        => /\ contains_char(result, ".")
           /\ after_last_dot(result) = to_lowercase(ext)
           /\ \A i \in DOMAIN after_last_dot(result) :
                 after_last_dot(result)[i] \notin is_ascii_uppercase

\* A call has returned for a filename that was rewritten and whose extension
\* had an uppercase letter.
UppercaseExtensionRewritten ==
    /\ pc = "done"
    /\ rule = 0
    /\ \E i \in DOMAIN ext : ext[i] \in is_ascii_uppercase

\* C4: dashify is total: every call returns; none panics on a slice or an
\* index out of range, and the loop that replaces ".." by "." ends.
EveryCallReturns == (pc = "call") ~> (pc = "done")

\* A call has returned for a filename made only of dots and punctuation,
\* after the loop of lib.rs 287 ran more than once.
PunctuationOnlyReturned ==
    /\ pc = "done"
    /\ filename # << >>
    /\ \A i \in DOMAIN filename : filename[i] \in { ".", "+", "[", "-", "_" }
    /\ rule = 0
    /\ loops >= 2

\* C5, as claimed: with force_dash, the output for an ASCII filename without
\* leading or trailing space has no underscore.
ForceDashNoUnderscoreAnywhere ==
    (pc = "done" /\ force_dash
        /\ (\A i \in DOMAIN filename : filename[i] \notin NonAscii)
        /\ (filename # << >> => filename[1] # " " /\ filename[Len(filename)] # " "))
        => ~contains_char(result, "_")

\* C5, amended: with force_dash, when the classifier does not exempt the
\* filename, the processed name (the output before the reattached extension)
\* has no underscore.
ForceDashNoUnderscoreInProcessedName ==
    (pc = "done" /\ force_dash /\ rule = 0) => ~contains_char(processed, "_")

\* A call with force_dash has returned for a filename that was rewritten and
\* whose name had an underscore.
ForceDashUnderscoreRewritten ==
    /\ pc = "done"
    /\ force_dash
    /\ rule = 0
    /\ contains_char(name, "_")

\* C6: for a filename that does not begin with a dot and that the classifier
\* does not exempt, the output has no two adjacent dots.
NoAdjacentDotsInOutput ==
    (pc = "done" /\ rule = 0 /\ ~starts_with(filename, << "." >>))
        => ~has_double_dots(result)

\* The filename without its initial maximal run of dots
RECURSIVE after_leading_dots(_)
after_leading_dots(s) ==
    IF s # << >> /\ Head(s) = "." THEN after_leading_dots(Tail(s)) ELSE s

\* C9: if is_already_clean returns true, ".." does not occur after the
\* filename's initial maximal run of dots.
AlreadyCleanHasNoInnerDoubleDots ==
    is_already_clean(filename, force_dash)
        => ~has_double_dots(after_leading_dots(filename))

\* C10: the splitter is lossless: an empty extension comes with the whole
\* filename as name; otherwise name + "." + extension is the filename and
\* the extension has no dot.
SplitIsLossless ==
    (pc = "process")
        => IF ext = << >>
           THEN name = filename
           ELSE name \o << "." >> \o ext = filename /\ ~contains_char(ext, ".")

\* C7: the tool renames a file only when the engine's output for its base
\* name differs from the base name, and then to that output, in the same
\* parent directory.
RenamesOnlyToDashifiedName ==
    \A r \in renames :
        /\ dashify(file_name(r.from), FALSE) # file_name(r.from)
        /\ r.to = parent(r.from) \o << dashify(file_name(r.from), FALSE) >>

\* The paths given to the tool, after expand_tilde
GivenPaths == { expand_tilde(args[i]) : i \in DOMAIN args }

\* C8: every rename is of a regular file, never of a directory; without the
\* recursive flag the file is a given path itself or a direct child of a
\* given directory.
RenamesOnlyFilesWithinReach ==
    \A r \in renames :
        /\ r.kind = "file"
        /\ r.from \notin Directories
        /\ ~recursive => (r.from \in GivenPaths \/ parent(r.from) \in GivenPaths)

\* Without the recursive flag, the tool has left a directory that holds a
\* file and a subdirectory that holds a file, having renamed the one and
\* passed over the other.
FlatRunPassedOverSubdirectory ==
    /\ cli_pc = "exited"
    /\ ~recursive
    /\ \E r \in renames : parent(r.from) = Top /\ r.ok
    /\ Sub \o << << "A", "b" >> >> \in fs_files

\* out is input with its characters kept in order and one dash inserted
\* before each character whose position is in at, and nothing else.
dashes_inserted_at(input, out, at) ==
    LET shift(i) == Cardinality({ j \in at : j <= i })
    IN  /\ Len(out) = Len(input) + Cardinality(at)
        /\ \A i \in DOMAIN input : out[i + shift(i)] = input[i]
        /\ \A i \in at : out[i + shift(i) - 1] = "-"

\* The positions before which C11 says a dash goes: (a) after at least two
\* lowercase characters and before an uppercase one; (b) between two
\* uppercase characters when a lowercase one follows.
camel_positions_claimed(input) ==
    { i \in 2..Len(input) :
        \/ /\ input[i] \in is_ascii_uppercase
           /\ input[i-1] \in is_ascii_lowercase
           /\ i >= 3
           /\ input[i-2] \in is_ascii_lowercase
        \/ /\ input[i] \in is_ascii_uppercase
           /\ input[i-1] \in is_ascii_uppercase
           /\ i < Len(input)
           /\ input[i+1] \in is_ascii_lowercase }

\* C11: split_camel_case returns its input with the characters in order and
\* a single dash before exactly the positions of (a) and (b), never before
\* the first character.
CamelDashesExactlyWhereClaimed ==
    (pc = "numbers")
        => dashes_inserted_at(working_name(name), processed,
                              camel_positions_claimed(working_name(name)))

\* split_camel_case has returned a string with a dash of kind (a), a dash of
\* kind (b), and a lowercase-to-uppercase transition left without a dash.
CamelBothKindsSplit ==
    /\ pc = "numbers"
    /\ \E i \in camel_positions_claimed(working_name(name)) :
          working_name(name)[i-1] \in is_ascii_lowercase
    /\ \E i \in camel_positions_claimed(working_name(name)) :
          working_name(name)[i-1] \in is_ascii_uppercase
    /\ \E i \in 2..Len(working_name(name)) :
          /\ i \notin camel_positions_claimed(working_name(name))
          /\ working_name(name)[i-1] \in is_ascii_lowercase
          /\ working_name(name)[i] \in is_ascii_uppercase

\* The positions before which C12 says a dash goes: every character that
\* with its predecessor makes a (letter, digit) or a (digit, letter) pair.
number_positions_claimed(input) ==
    { i \in 2..Len(input) :
        \/ input[i-1] \in is_ascii_alphabetic /\ input[i] \in is_ascii_digit
        \/ input[i-1] \in is_ascii_digit /\ input[i] \in is_ascii_alphabetic }

letter_next_to_digit(s) ==
    \E i \in 2..Len(s) :
        \/ s[i-1] \in is_ascii_alphabetic /\ s[i] \in is_ascii_digit
        \/ s[i-1] \in is_ascii_digit /\ s[i] \in is_ascii_alphabetic

\* C12: split_numbers inserts exactly one dash between every adjacent
\* (letter, digit) and (digit, letter) pair and changes nothing else, so its
\* output has no letter next to a digit; the dash-or-underscore guard of the
\* letter-to-digit branch suppresses no insertion.
NumberDashesExactlyWhereClaimed ==
    [][(pc = "numbers" /\ pc' = "brackets")
        => /\ dashes_inserted_at(processed, processed',
                                 number_positions_claimed(processed))
           /\ ~letter_next_to_digit(processed')]_vars

\* split_numbers has returned a string in which it separated a letter from a
\* following digit and a digit from a following letter.
LetterDigitLetterSeparated ==
    /\ pc = "brackets"
    /\ \E i \in 2..Len(name) - 1 :
          /\ name[i-1] \in is_ascii_alphabetic
          /\ name[i] \in is_ascii_digit
          /\ name[i+1] \in is_ascii_alphabetic
    /\ \E i \in 2..Len(processed) - 3 :
          /\ processed[i-1] \in is_ascii_alphabetic
          /\ processed[i] = "-"
          /\ processed[i+1] \in is_ascii_digit
          /\ processed[i+2] = "-"
          /\ processed[i+3] \in is_ascii_alphabetic

separators == { "-", "_" }

adjacent_separators(s) ==
    \E i \in 2..Len(s) : s[i-1] \in separators /\ s[i] \in separators

\* out is input with every maximal run of dashes and underscores replaced
\* by one character, a dash if the run has a dash and an underscore if not,
\* and every other character unchanged.
runs_collapsed(input, out) ==
    LET starts_run(i) == input[i] \in separators
                            /\ (i = 1 \/ input[i-1] \notin separators)
        kept == { i \in DOMAIN input :
                    input[i] \notin separators \/ starts_run(i) }
        rank(i) == Cardinality({ j \in kept : j <= i })
        dash_in_run(i) ==
            \E j \in i..Len(input) :
                /\ input[j] = "-"
                /\ \A k \in i..j : input[k] \in separators
    IN  /\ Len(out) = Cardinality(kept)
        /\ \A i \in kept :
              out[rank(i)] = IF input[i] \notin separators THEN input[i]
                             ELSE IF dash_in_run(i) THEN "-" ELSE "_"

\* C13: collapse_mixed_separators replaces every maximal run of dashes and
\* underscores by one character (a dash if the run has one, else an
\* underscore) and leaves the rest unchanged; its output has no two adjacent
\* separators, so the two collapsing stages after it change nothing.
MixedRunsCollapsedOnceAndForAll ==
    [][/\ (pc = "mixed" /\ pc' = "dashes")
            => /\ runs_collapsed(processed, processed')
               /\ ~adjacent_separators(processed')
       /\ (pc = "dashes" /\ pc' = "underscores") => processed' = processed
       /\ (pc = "underscores" /\ pc' = "dots") => processed' = processed]_vars

\* The three collapsing stages have run on a name with an underscore
\* directly followed by a dash, without force_dash, and left one dash for
\* the two.
UnderscoreDashRunCollapsed ==
    /\ pc = "dots"
    /\ loops = 0
    /\ ~force_dash
    /\ \E i \in 2..Len(name) - 1 :
          /\ name[i-1] = "a" /\ name[i] = "_" /\ name[i+1] = "-"
          /\ Len(processed) >= i
          /\ processed[i-1] = "a" /\ processed[i] = "-"
    /\ ~adjacent_separators(processed)
    /\ Len(processed) < Len(name)

\* The name without one leading dot
after_one_leading_dot(s) ==
    IF s # << >> /\ s[1] = "." THEN SubSeq(s, 2, Len(s)) ELSE s

last_is_separator(s) == s # << >> /\ s[Len(s)] \in separators

\* C14: the result of process_name ends in exactly one separator if the
\* name, after one leading dot is removed, ends in a dash or an underscore,
\* and does not end in a dash or an underscore if it does not.
TrailingSeparatorKeptOrTrimmed ==
    (pc = "done" /\ rule = 0)
        => IF last_is_separator(after_one_leading_dot(name))
           THEN /\ last_is_separator(processed)
                /\ ~last_is_separator(SubSeq(processed, 1, Len(processed) - 1))
           ELSE ~last_is_separator(processed)

\* process_name has returned, for a name that ends in two underscores and
\* without force_dash, a result that ends in one underscore.
TrailingUnderscoresKeptAsOne ==
    /\ pc = "done"
    /\ rule = 0
    /\ ~force_dash
    /\ Len(name) >= 3
    /\ name[Len(name)] = "_"
    /\ name[Len(name) - 1] = "_"
    /\ Len(processed) >= 2
    /\ processed[Len(processed)] = "_"
    /\ processed[Len(processed) - 1] \notin separators

\* C15: for every non-empty filename and either value of force_dash, the
\* output of dashify is non-empty.
NonEmptyFilenameGivesNonEmptyOutput ==
    (pc = "done" /\ filename # << >>) => result # << >>

\* C16: for a filename with no underscore, dashify returns the same output
\* with force_dash as without it.
ForceDashIrrelevantWithoutUnderscore ==
    (pc = "done" /\ ~(\E i \in DOMAIN filename : filename[i] = "_"))
        => result = dashify(filename, ~force_dash)

\* dashify has rewritten, with force_dash, a filename that has no underscore
\* and that it had to put a dash into.
ForceDashRewroteNameWithoutUnderscore ==
    /\ pc = "done"
    /\ force_dash
    /\ rule = 0
    /\ filename # << >>
    /\ \A i \in DOMAIN filename : filename[i] # "_"
    /\ result # filename
    /\ Len(result) > Len(filename)

====
